---- MODULE Spec2Model ----
(***************************************************************************)
(* Model of the regular-expression literal parser of                       *)
(* src/src/parser/parse_new.ts (class Parser).                             *)
(*                                                                         *)
(* A string is a sequence of one-character strings.  The cursor `index`    *)
(* is 0-based as in the source; CharAt turns it into a sequence position.  *)
(* Group nodes live in the heap `nodes` (a node reference is its position  *)
(* in `nodes`), because the parser keeps references to nodes (`prev`,      *)
(* `parent`) and mutates them through these references.                    *)
(***************************************************************************)
EXTENDS Integers, Sequences, FiniteSets, TLC

VARIABLES
    raw,        \* the argument of parse(regex), before the constructor trims it
    regex,      \* Parser.regex
    message,    \* Parser.message
    index,      \* Parser.index
    ast,        \* Parser.ast: [body: Seq(node reference), flags: Seq(flag name)]
    nodes,      \* heap of the nodes created so far
    parent,     \* Parser.parent (a reference; Root is the ast itself)
    prev,       \* Parser.prev (a reference)
    groupIndex, \* Parser.groupIndex
    flagSet,    \* Parser.flagSet, in insertion order
    stack,      \* the onGroup calls in progress (innermost last), each by its groupNode
    pc,         \* position of the control flow
    result,     \* what parse() gave back: "none", "pattern", "error", "exception"
    qLog,       \* history: calls of consumeQuantifier [at, q, end, lazy]
    dispatched, \* history: the cursor positions the switch of consume ran on
    opened      \* history: per group node, [pos: index of its "(", encl: innermost group being consumed]

vars == <<raw, regex, message, index, ast, nodes, parent, prev, groupIndex,
          flagSet, stack, pc, result, qLog, dispatched, opened>>

----------------------------------------------------------------------------
(* Values *)

Root == 0
Undefined == 0 - 1
Infinity == 0 - 2
NoMatch == <<"#nomatch">>
NoChar == "#undefined"
NullQ == [kind |-> "null", min |-> 0, max |-> 0, greedy |-> FALSE]

Digits == {"0", "1", "2", "3", "4", "5", "6", "7", "8", "9"}
Letters == {"a", "b", "c", "d", "g", "i", "m", "n", "s", "u", "x", "y", "z"}
Spaces == {" "}

MsgInvalid == "Invalid regular expression"
MsgFlags == "Invalid regular expression flags"
MsgOracle == "SyntaxError from RegExp"

\* s[i] of JavaScript: undefined outside the string
CharAt(s, i) == IF i >= 0 /\ i < Len(s) THEN s[i + 1] ELSE NoChar

\* s.slice(i)
Slice(s, i) == IF i >= Len(s) THEN <<>> ELSE SubSeq(s, (IF i < 0 THEN 0 ELSE i) + 1, Len(s))

\* s.slice(i, j)
Slice2(s, i, j) == IF j <= i THEN <<>> ELSE SubSeq(s, i + 1, j)

\* s.indexOf(c), -1 when absent
IndexOf(s, c) ==
    IF \E k \in 1..Len(s) : s[k] = c
    THEN (CHOOSE k \in 1..Len(s) : s[k] = c /\ \A j \in 1..(k - 1) : s[j] # c) - 1
    ELSE 0 - 1

\* s.trim()
RECURSIVE TrimLeft(_)
TrimLeft(s) == IF s # <<>> /\ Head(s) \in Spaces THEN TrimLeft(Tail(s)) ELSE s

RECURSIVE TrimRight(_)
TrimRight(s) ==
    IF s # <<>> /\ s[Len(s)] \in Spaces THEN TrimRight(SubSeq(s, 1, Len(s) - 1)) ELSE s

Trim(s) == TrimRight(TrimLeft(s))

DigitVal(c) ==
    CASE c = "0" -> 0 [] c = "1" -> 1 [] c = "2" -> 2 [] c = "3" -> 3 [] c = "4" -> 4
      [] c = "5" -> 5 [] c = "6" -> 6 [] c = "7" -> 7 [] c = "8" -> 8 [] c = "9" -> 9

\* parseInt of a digit run
RECURSIVE parseInt(_)
parseInt(s) ==
    IF s = <<>> THEN 0 ELSE 10 * parseInt(SubSeq(s, 1, Len(s) - 1)) + DigitVal(s[Len(s)])

DigitChar(d) ==
    CASE d = 0 -> "0" [] d = 1 -> "1" [] d = 2 -> "2" [] d = 3 -> "3" [] d = 4 -> "4"
      [] d = 5 -> "5" [] d = 6 -> "6" [] d = 7 -> "7" [] d = 8 -> "8" [] d = 9 -> "9"

\* n + "" for a non-negative integer
RECURSIVE NumToStr(_)
NumToStr(n) == IF n < 10 THEN <<DigitChar(n)>> ELSE NumToStr(n \div 10) \o <<DigitChar(n % 10)>>

\* the longest run of digits s starts with
RECURSIVE DigitRun(_)
DigitRun(s) == IF s # <<>> /\ Head(s) \in Digits THEN <<Head(s)>> \o DigitRun(Tail(s)) ELSE <<>>

----------------------------------------------------------------------------
(* The flag table *)

flagDict(f) ==
    CASE f = "d" -> "hasIndices"
      [] f = "g" -> "global"
      [] f = "i" -> "ignoreCase"
      [] f = "m" -> "multiline"
      [] f = "s" -> "dotAll"
      [] f = "u" -> "unicode"
      [] f = "y" -> "sticky"
      [] OTHER -> "undefined"

\* /[gimsuy]/.test(c)
FlagTest(c) == c \in {"g", "i", "m", "s", "u", "y"}

----------------------------------------------------------------------------
(* The legality oracle: new RegExp(body, flags) of the JavaScript runtime,  *)
(* for patterns over the characters the model's inputs are made of (no      *)
(* escapes, classes, alternation or lookaround).  It throws a SyntaxError   *)
(* exactly when RegExpLegal is FALSE.                                       *)

\* The braced quantifier {m}, {m,} or {m,n} that starts at position i of s, if any
BraceForm(s, i) ==
    LET m  == DigitRun(Slice(s, i + 1))
        j  == i + 1 + Len(m)
        n  == DigitRun(Slice(s, j + 1))
        no == [ok |-> FALSE, min |-> 0, max |-> 0, len |-> 0]
    IN  IF CharAt(s, i) # "{" \/ m = <<>> THEN no
        ELSE IF CharAt(s, j) = "}"
             THEN [ok |-> TRUE, min |-> parseInt(m), max |-> parseInt(m), len |-> Len(m) + 2]
        ELSE IF CharAt(s, j) = "," /\ CharAt(s, j + 1 + Len(n)) = "}"
             THEN [ok |-> TRUE, min |-> parseInt(m),
                   max |-> IF n = <<>> THEN Infinity ELSE parseInt(n),
                   len |-> Len(m) + Len(n) + 3]
        ELSE no

\* Position after the optional quantifier (and its lazy mark) at position j, -1 if illegal
AfterQuantifier(s, j) ==
    LET c  == CharAt(s, j)
        b  == BraceForm(s, j)
        j1 == IF c \in {"*", "+", "?"} THEN j + 1
              ELSE IF b.ok
                   THEN IF b.max # Infinity /\ b.min > b.max THEN 0 - 1 ELSE j + b.len
              ELSE j
    IN  IF j1 < 0 THEN 0 - 1
        ELSE IF j1 > j /\ CharAt(s, j1) = "?" THEN j1 + 1
        ELSE j1

\* A group name: letters and digits, a letter first
IsGroupName(name) ==
    /\ name # <<>>
    /\ name[1] \in Letters
    /\ \A k \in 1..Len(name) : name[k] \in Letters \cup Digits

\* Position of the first ">" at or after position i, -1 when absent
FirstGt(s, i) ==
    IF \E k \in i..(Len(s) - 1) : CharAt(s, k) = ">"
    THEN CHOOSE k \in i..(Len(s) - 1) :
            CharAt(s, k) = ">" /\ \A j \in i..(k - 1) : CharAt(s, j) # ">"
    ELSE 0 - 1

\* Position where the content of the group opening at position i starts, -1 if illegal
GroupInner(s, i) ==
    IF CharAt(s, i + 1) # "?" THEN i + 1
    ELSE IF CharAt(s, i + 2) = ":" THEN i + 3
    ELSE IF CharAt(s, i + 2) = "<"
         THEN LET k == FirstGt(s, i + 3)
              IN  IF k >= 0 /\ IsGroupName(Slice2(s, i + 3, k)) THEN k + 1 ELSE 0 - 1
    ELSE 0 - 1

\* Parses terms from position i on; the position it stops at (a ")" or the end), -1 if illegal
RECURSIVE Alternative(_, _, _)
Alternative(s, i, u) ==
    LET c == CharAt(s, i)
    IN  IF i >= Len(s) \/ c = ")" THEN i
        ELSE IF c \in {"*", "+", "?"} THEN 0 - 1
        ELSE IF c = "{" /\ (u \/ BraceForm(s, i).ok) THEN 0 - 1
        ELSE IF c = "}" /\ u THEN 0 - 1
        ELSE LET inner   == IF c = "(" THEN GroupInner(s, i) ELSE 0
                 close   == IF c = "(" /\ inner >= 0 THEN Alternative(s, inner, u) ELSE 0 - 1
                 atomEnd == IF c # "(" THEN i + 1
                            ELSE IF close >= 0 /\ CharAt(s, close) = ")" THEN close + 1
                            ELSE 0 - 1
                 qEnd    == IF atomEnd < 0 THEN 0 - 1 ELSE AfterQuantifier(s, atomEnd)
             IN  IF qEnd < 0 THEN 0 - 1 ELSE Alternative(s, qEnd, u)

\* Positions where a named group opens
NamedAt(s) ==
    {i \in 0..(Len(s) - 1) :
        CharAt(s, i) = "(" /\ CharAt(s, i + 1) = "?" /\ CharAt(s, i + 2) = "<"}

GroupNameAt(s, i) == Slice2(s, i + 3, FirstGt(s, i + 3))

RegExpLegal(body, flags) ==
    /\ \A k \in 1..Len(flags) : flags[k] \in {"d", "g", "i", "m", "s", "u", "y"}
    /\ \A j, k \in 1..Len(flags) : j # k => flags[j] # flags[k]
    /\ Alternative(body, 0, \E k \in 1..Len(flags) : flags[k] = "u") = Len(body)
    /\ \A i, j \in NamedAt(body) : i # j => GroupNameAt(body, i) # GroupNameAt(body, j)

----------------------------------------------------------------------------
(* Parser.validate *)

\* Set.add on a set kept in insertion order
SetAdd(set, x) == IF \E k \in 1..Len(set) : set[k] = x THEN set ELSE Append(set, x)

\* for (let i = start + 1; ...) if (regex[i] === "/") { end = i; break }
FindEnd(s, start) ==
    IF \E i \in (start + 1)..(Len(s) - 1) : CharAt(s, i) = "/"
    THEN CHOOSE i \in (start + 1)..(Len(s) - 1) :
            CharAt(s, i) = "/" /\ \A j \in (start + 1)..(i - 1) : CharAt(s, j) # "/"
    ELSE 0 - 1

\* The flag loop from position i on: where it fails (-1 if it does not) and the set it built
RECURSIVE FlagLoop(_, _, _)
FlagLoop(s, i, set) ==
    IF i >= Len(s) THEN [bad |-> 0 - 1, set |-> set]
    ELSE IF ~FlagTest(CharAt(s, i)) THEN [bad |-> i, set |-> set]
    ELSE FlagLoop(s, i + 1, SetAdd(set, CharAt(s, i)))

\* validate with (start === -1) for (start !== 0): a "/" anywhere passes as the opening one
validateAnyStart(s) ==
    LET start == IndexOf(s, "/")
        end   == FindEnd(s, start)
        fl    == FlagLoop(s, end + 1, <<>>)
    IN  IF start = 0 - 1 THEN [ok |-> FALSE, message |-> MsgInvalid, flagSet |-> <<>>]
        ELSE IF end = 0 - 1 THEN [ok |-> FALSE, message |-> MsgInvalid, flagSet |-> <<>>]
        ELSE IF fl.bad >= 0 THEN [ok |-> FALSE, message |-> MsgFlags, flagSet |-> fl.set]
        ELSE IF ~RegExpLegal(Slice2(s, start + 1, end), Slice(s, end + 1))
             THEN [ok |-> FALSE, message |-> MsgOracle, flagSet |-> fl.set]
        ELSE [ok |-> TRUE, message |-> "", flagSet |-> fl.set]

validate(s) ==
    LET start == IndexOf(s, "/")
        end   == FindEnd(s, start)
        fl    == FlagLoop(s, end + 1, <<>>)
    IN  IF start # 0 THEN [ok |-> FALSE, message |-> MsgInvalid, flagSet |-> <<>>]
        ELSE IF end = 0 - 1 THEN [ok |-> FALSE, message |-> MsgInvalid, flagSet |-> <<>>]
        ELSE IF fl.bad >= 0 THEN [ok |-> FALSE, message |-> MsgFlags, flagSet |-> fl.set]
        ELSE IF ~RegExpLegal(Slice2(s, start + 1, end), Slice(s, end + 1))
             THEN [ok |-> FALSE, message |-> MsgOracle, flagSet |-> fl.set]
        ELSE [ok |-> TRUE, message |-> "", flagSet |-> fl.set]

----------------------------------------------------------------------------
(* Cursor and lookahead *)

\* advance with (index === length) for (index === length - 1): it steps off the last character
advanceOffByOne(s, i, step) ==
    IF i = Len(s) THEN [ok |-> FALSE, index |-> i] ELSE [ok |-> TRUE, index |-> i + step]

\* advance(step) from cursor i: whether it moved and the new cursor
advance(s, i, step) ==
    IF i = Len(s) - 1 THEN [ok |-> FALSE, index |-> i] ELSE [ok |-> TRUE, index |-> i + step]

\* cur(k) with the cursor at i
cur(s, i, k) == CharAt(s, i + k)

\* Position of the last ">" of t (1-based), 0 when absent: the greedy (.*)> of eat
LastGt(t) ==
    IF \E k \in 1..Len(t) : t[k] = ">"
    THEN CHOOSE k \in 1..Len(t) : t[k] = ">" /\ \A j \in (k + 1)..Len(t) : t[j] # ">"
    ELSE 0

\* eat(startPoint, endPoint, k) with the cursor at i, for the patterns the parser passes
eat(s, i, startPoint, endPoint, k) ==
    LET t == Slice(s, i + k)
    IN  IF endPoint = ""
        THEN CASE startPoint = "\\d+" -> IF DigitRun(t) # <<>> THEN DigitRun(t) ELSE NoMatch
               [] startPoint = ","    -> IF CharAt(t, 0) = "," THEN <<",">> ELSE NoMatch
               [] startPoint = "\\?:" ->
                    IF CharAt(t, 0) = "?" /\ CharAt(t, 1) = ":" THEN <<"?", ":">> ELSE NoMatch
        ELSE \* startPoint = "\\?<", endPoint = ">": ^\?<(.*)>
             IF CharAt(t, 0) = "?" /\ CharAt(t, 1) = "<" /\ LastGt(t) >= 3
             THEN SubSeq(t, 3, LastGt(t) - 1)
             ELSE NoMatch

\* JavaScript truthiness of what eat returns: false and "" are falsy
Truthy(m) == m # NoMatch /\ m # <<>>

----------------------------------------------------------------------------
(* Parser.consumeQuantifier *)

Quantifier(kind, min, max) == [kind |-> kind, min |-> min, max |-> max, greedy |-> TRUE]

\* The switch of consumeQuantifier with the cursor at i: the quantifier it
\* builds (NullQ when it builds none) and the cursor it leaves
QuantifierSwitch(s, i) ==
    LET c     == cur(s, i, 0)
        min   == eat(s, i, "\\d+", "", 1)
        ml    == Len(min)
        comma == eat(s, i, ",", "", ml + 1)
        max   == eat(s, i, "\\d+", "", 1)
    IN  CASE c = "?" -> [q |-> Quantifier("?", 0, 1), index |-> advance(s, i, 1).index]
          [] c = "*" -> [q |-> Quantifier("*", 0, Infinity), index |-> advance(s, i, 1).index]
          [] c = "+" -> [q |-> Quantifier("+", 1, Infinity), index |-> advance(s, i, 1).index]
          [] c = "{" ->
                IF ~Truthy(min) THEN [q |-> NullQ, index |-> i]
                ELSE IF cur(s, i, ml + 1) = "}"
                     THEN [q |-> Quantifier("custom", parseInt(min), parseInt(min)),
                           index |-> advance(s, i, ml + 2).index]
                ELSE IF Truthy(comma) /\ cur(s, i, ml + 2) = "}"
                     THEN [q |-> Quantifier("custom", parseInt(min), Infinity),
                           index |-> advance(s, i, ml + 3).index]
                ELSE IF ~Truthy(max) THEN [q |-> NullQ, index |-> i]
                ELSE IF cur(s, i, ml + 1) = "}"
                     THEN [q |-> Quantifier("custom", parseInt(min), parseInt(max)),
                           index |-> advance(s, i, ml + Len(max) + 3).index]
                ELSE [q |-> NullQ, index |-> i]
          [] OTHER -> [q |-> NullQ, index |-> i]

\* The lazy mark: if (quantifier && this.cur() === "?") { greedy = false; advance() }
LazyMark(s, r) ==
    IF r.q # NullQ /\ cur(s, r.index, 0) = "?"
    THEN [q |-> [r.q EXCEPT !.greedy = FALSE], index |-> advance(s, r.index, 1).index]
    ELSE r

\* consumeQuantifier with the cursor at i: the quantifier, the cursor, whether
\* reading this.prev.type throws (prev is undefined), and the heap afterwards
consumeQuantifierAt(s, i, pv, heap) ==
    LET r == LazyMark(s, QuantifierSwitch(s, i))
    IN  [q      |-> r.q,
         index  |-> r.index,
         throws |-> r.q # NullQ /\ pv = Undefined,
         nodes  |-> IF r.q # NullQ /\ pv # Undefined
                       /\ heap[pv].type \in {"character", "group"}
                    THEN [heap EXCEPT ![pv].quantifier = r.q]
                    ELSE heap]

----------------------------------------------------------------------------
(* Parser.onGroup, up to its call of consume(")") *)

\* The kind of the group whose "(" the cursor has just passed (cursor at i),
\* its name, the cursor after the marker and the capture counter
GroupKind(s, i, gi) ==
    LET name == eat(s, i, "\\?<", ">", 0)
    IN  IF Truthy(eat(s, i, "\\?:", "", 0))
        THEN [kind |-> "nonCapturing", name |-> <<>>,
              index |-> advance(s, i, 2).index, groupIndex |-> gi]
        ELSE IF Truthy(name)
        THEN [kind |-> "namedCapturing", name |-> name,
              index |-> advance(s, i, Len(name) + 3).index, groupIndex |-> gi]
        ELSE [kind |-> "capturing", name |-> NumToStr(gi), index |-> i, groupIndex |-> gi + 1]

GroupNode(g) ==
    [type |-> "group", children |-> <<>>, kind |-> g.kind, name |-> g.name, quantifier |-> NullQ]

\* appendChild(node) with the given parent: the ast and the heap afterwards.
\* No choice node is ever created, so the branch for a choice parent is not taken.
appendChild(a, heap, par, ref) ==
    IF par = Root THEN [ast |-> [a EXCEPT !.body = Append(@, ref)], nodes |-> heap]
    ELSE IF heap[par].type \in {"group", "lookAroundAssertion"}
         THEN [ast |-> a, nodes |-> [heap EXCEPT ![par].children = Append(@, ref)]]
    ELSE [ast |-> a, nodes |-> heap]

\* onFlags with unshift for push: the flag nodes come out in reverse order
onFlagsUnshift(set) == [k \in 1..Len(set) |-> flagDict(set[Len(set) + 1 - k])]

\* onFlags: one flag node per member of flagSet, in insertion order
onFlags(set) == [k \in 1..Len(set) |-> flagDict(set[k])]

----------------------------------------------------------------------------
(* Inputs *)

MaxBody == 3
MaxFlags == 2
MaxRaw == 4

RECURSIVE Concat(_)
Concat(ts) == IF ts = <<>> THEN <<>> ELSE Head(ts) \o Concat(Tail(ts))

SeqsUpTo(S, n) == UNION {[1..k -> S] : k \in 0..n}

BodyTokens ==
    { <<"a">>, <<"(">>, <<")">>, <<"(", ")">>, <<"(", "?", ":">>, <<"(", "?", "<", "n", ">">>,
      <<">">>, <<"+">>, <<"*">>, <<"?">>, <<"{">>,
      <<"{", "2", "}">>, <<"{", "1", "2", ",", "}">>, <<"{", "2", ",", "5", "}">> }

FlagAlphabet == {"d", "g", "i", "m", "s", "u", "y", "z"}

FlagBodies == { <<"a">>, <<"(", ")", "+">> }

RawAlphabet == {"/", "a", "g", " "}

\* Literals of the specification's examples and of the cases it describes
Examples ==
    { <<"/", "a", "b", "+", "/", "g", "i">>,
      <<"/", "(", "a", ")", "(", "b", "(", "c", ")", ")", "/">>,
      <<"/", "x", "/", "z">>,
      <<"a", "b", "/">>,
      <<"/", "(", "?", ":", "a", ")", "(", "?", "<", "n", ">", "a", ")", "(", "b", ")", "/">>,
      <<"/", "(", "a", ")", "{", "2", ",", "5", "}", "?", "/">>,
      <<"/", "(", "a", ")", "{", "3", ",", "}", "/">>,
      <<"/", "(", "a", ")", "*", "?", "/">>,
      <<"/", "(", "a", ")", "+", "(", "b", ")", "(", "c", ")", "/">> }

Inputs ==
    {<<"/">> \o Concat(ts) \o <<"/">> : ts \in SeqsUpTo(BodyTokens, MaxBody)}
    \cup {<<"/">> \o b \o <<"/">> \o f : b \in FlagBodies, f \in SeqsUpTo(FlagAlphabet, MaxFlags)}
    \cup SeqsUpTo(RawAlphabet, MaxRaw)
    \cup Examples

----------------------------------------------------------------------------
(* The parser as a state machine *)

\* new Parser(regex)
Init ==
    /\ raw \in Inputs
    /\ regex = Trim(raw)
    /\ message = ""
    /\ index = 0
    /\ ast = [body |-> <<>>, flags |-> <<>>]
    /\ nodes = <<>>
    /\ parent = Undefined
    /\ prev = Undefined
    /\ groupIndex = 1
    /\ flagSet = <<>>
    /\ stack = <<>>
    /\ pc = "parse"
    /\ result = "none"
    /\ qLog = <<>>
    /\ dispatched = {}
    /\ opened = <<>>

endPoint == IF stack = <<>> THEN "/" ELSE ")"

\* consume returns to its caller: onRegexBody (then onFlags) or onGroup
ReturnPc == IF stack = <<>> THEN "onFlags" ELSE "groupReturn"

\* parse(): validate(), and the error value when it fails
Validate ==
    /\ pc = "parse"
    /\ LET v == validate(regex)
       IN  /\ flagSet' = v.flagSet
           /\ message' = v.message
           /\ pc' = IF v.ok THEN "onRegex" ELSE "returned"
           /\ result' = IF v.ok THEN "none" ELSE "error"
    /\ UNCHANGED <<raw, regex, index, ast, nodes, parent, prev, groupIndex, stack,
                   qLog, dispatched, opened>>

\* onRegex, onRegexBody up to its call of consume("/")
OnRegex ==
    /\ pc = "onRegex"
    /\ parent' = Root
    /\ index' = advance(regex, index, 1).index
    /\ pc' = "switch"
    /\ UNCHANGED <<raw, regex, message, ast, nodes, prev, groupIndex, flagSet, stack,
                   result, qLog, dispatched, opened>>

\* consume: case endPoint: return
ConsumeEndPoint ==
    /\ pc = "switch"
    /\ cur(regex, index, 0) = endPoint
    /\ dispatched' = dispatched \cup {index}
    /\ pc' = ReturnPc
    /\ UNCHANGED <<raw, regex, message, index, ast, nodes, parent, prev, groupIndex,
                   flagSet, stack, result, qLog, opened>>

\* consume: case "{", "?", "*", "+": consumeQuantifier()
ConsumeQuantifier ==
    /\ pc = "switch"
    /\ cur(regex, index, 0) # endPoint
    /\ cur(regex, index, 0) \in {"{", "?", "*", "+"}
    /\ LET r == consumeQuantifierAt(regex, index, prev, nodes)
       IN  /\ index' = r.index
           /\ nodes' = r.nodes
           /\ qLog' = Append(qLog, [at |-> index, q |-> r.q, end |-> r.index])
           /\ pc' = IF r.throws THEN "returned" ELSE "while"
           /\ result' = IF r.throws THEN "exception" ELSE result
    /\ dispatched' = dispatched \cup {index}
    /\ UNCHANGED <<raw, regex, message, ast, parent, prev, groupIndex, flagSet, stack, opened>>

\* consume: case "(": onGroup() up to its call of consume(")")
OnGroup ==
    /\ pc = "switch"
    /\ cur(regex, index, 0) # endPoint
    /\ cur(regex, index, 0) = "("
    /\ LET g   == GroupKind(regex, advance(regex, index, 1).index, groupIndex)
           ref == Len(nodes) + 1
           r   == appendChild(ast, Append(nodes, GroupNode(g)), parent, ref)
       IN  /\ index' = g.index
           /\ groupIndex' = g.groupIndex
           /\ ast' = r.ast
           /\ nodes' = r.nodes
           /\ opened' = Append(opened, [pos |-> index,
                                        encl |-> IF stack = <<>> THEN Root ELSE stack[Len(stack)]])
           /\ stack' = Append(stack, ref)
    /\ dispatched' = dispatched \cup {index}
    /\ pc' = "switch"
    /\ UNCHANGED <<raw, regex, message, parent, prev, flagSet, result, qLog>>

\* consume: default: break
ConsumeDefault ==
    /\ pc = "switch"
    /\ cur(regex, index, 0) \notin {endPoint, "{", "?", "*", "+", "("}
    /\ dispatched' = dispatched \cup {index}
    /\ pc' = "while"
    /\ UNCHANGED <<raw, regex, message, index, ast, nodes, parent, prev, groupIndex,
                   flagSet, stack, result, qLog, opened>>

\* consume: while (this.advance()); the loop goes on, or consume returns
While ==
    /\ pc = "while"
    /\ LET a == advance(regex, index, 1)
       IN  /\ index' = a.index
           /\ pc' = IF a.ok THEN "switch" ELSE ReturnPc
    /\ UNCHANGED <<raw, regex, message, ast, nodes, parent, prev, groupIndex, flagSet,
                   stack, result, qLog, dispatched, opened>>

\* onGroup after consume(")") returned: this.prev = groupNode, back in the caller's loop
OnGroupReturn ==
    /\ pc = "groupReturn"
    /\ prev' = stack[Len(stack)]
    /\ stack' = SubSeq(stack, 1, Len(stack) - 1)
    /\ pc' = "while"
    /\ UNCHANGED <<raw, regex, message, index, ast, nodes, parent, groupIndex, flagSet,
                   result, qLog, dispatched, opened>>

\* onFlags, and parse() returns the ast
OnFlags ==
    /\ pc = "onFlags"
    /\ ast' = [ast EXCEPT !.flags = @ \o onFlags(flagSet)]
    /\ pc' = "returned"
    /\ result' = "pattern"
    /\ UNCHANGED <<raw, regex, message, index, nodes, parent, prev, groupIndex, flagSet,
                   stack, qLog, dispatched, opened>>

Next ==
    \/ Validate
    \/ OnRegex
    \/ ConsumeEndPoint
    \/ ConsumeQuantifier
    \/ OnGroup
    \/ ConsumeDefault
    \/ While
    \/ OnGroupReturn
    \/ OnFlags

Spec == Init /\ [][Next]_vars

TypeOK ==
    /\ pc \in {"parse", "onRegex", "switch", "while", "groupReturn", "onFlags", "returned"}
    /\ result \in {"none", "pattern", "error", "exception"}

----------------------------------------------------------------------------
(* What the specification states, in terms of the literal alone *)

\* Position of the closing delimiter: the first "/" after position 0 (-1 when absent)
ClosePos(s) ==
    IF \E k \in 1..(Len(s) - 1) : CharAt(s, k) = "/"
    THEN CHOOSE k \in 1..(Len(s) - 1) :
            CharAt(s, k) = "/" /\ \A j \in 1..(k - 1) : CharAt(s, j) # "/"
    ELSE 0 - 1

WellDelimited(s) == CharAt(s, 0) = "/" /\ ClosePos(s) > 0

SevenFlags == {"d", "g", "i", "m", "s", "u", "y"}

FlagName(c) ==
    CASE c = "d" -> "hasIndices" [] c = "g" -> "global" [] c = "i" -> "ignoreCase"
      [] c = "m" -> "multiline" [] c = "s" -> "dotAll" [] c = "u" -> "unicode"
      [] c = "y" -> "sticky"

\* The quantifier the specification gives for the text at position i:
\* its kind and bounds, greedy unless a "?" follows, and the position past it
StatedQuantifier(s, i) ==
    LET c    == CharAt(s, i)
        b    == BraceForm(s, i)
        span == IF c \in {"?", "*", "+"} THEN 1 ELSE b.len
        lazy == CharAt(s, i + span) = "?"
        q    == CASE c = "?" -> [kind |-> "?", min |-> 0, max |-> 1, greedy |-> ~lazy]
                  [] c = "*" -> [kind |-> "*", min |-> 0, max |-> Infinity, greedy |-> ~lazy]
                  [] c = "+" -> [kind |-> "+", min |-> 1, max |-> Infinity, greedy |-> ~lazy]
                  [] OTHER   -> [kind |-> "custom", min |-> b.min, max |-> b.max,
                                 greedy |-> ~lazy]
    IN  [ok  |-> c \in {"?", "*", "+"} \/ b.ok,
         q   |-> q,
         end |-> i + span + (IF lazy THEN 1 ELSE 0)]

\* C1: every call of the quantifier parser with the cursor on a quantifier
\* (?, *, +, {m}, {m,}, {m,n}) produces the stated kind and bounds, greedy
\* unless a "?" follows, and leaves the cursor just past the whole span.
C1_QuantifierForms ==
    \A k \in 1..Len(qLog) :
        LET x == StatedQuantifier(regex, qLog[k].at)
        IN  x.ok => qLog[k].q = x.q /\ qLog[k].end = x.end

\* An ordinary character of a literal body
Ordinary(c) == c \in Letters \cup Digits

\* The body is ordinary characters, each optionally followed by one of ?, *, +
SimpleBody(s) ==
    /\ WellDelimited(s)
    /\ \A k \in 1..(ClosePos(s) - 1) :
          \/ Ordinary(CharAt(s, k))
          \/ CharAt(s, k) \in {"?", "*", "+"} /\ Ordinary(CharAt(s, k - 1))

\* Positions of the ordinary characters of the body, in source order
OrdinaryPositions(s) ==
    LET P == {k \in 1..(ClosePos(s) - 1) : Ordinary(CharAt(s, k))}
    IN  [n \in 1..Cardinality(P) |->
            CHOOSE k \in P : Cardinality({j \in P : j < k}) = n - 1]

\* C2: for a literal of ordinary characters, each optionally followed by ?, *
\* or +, parse returns a Pattern whose body holds one Character node per
\* ordinary character, in source order, each carrying the quantifier that
\* follows it.
C2_CharacterNodes ==
    (pc = "returned" /\ result # "error" /\ SimpleBody(regex)) =>
        LET op == OrdinaryPositions(regex)
        IN  /\ result = "pattern"
            /\ Len(ast.body) = Len(op)
            /\ \A n \in 1..Len(op) :
                  /\ nodes[ast.body[n]].type = "character"
                  /\ nodes[ast.body[n]].quantifier =
                        IF StatedQuantifier(regex, op[n] + 1).ok
                        THEN StatedQuantifier(regex, op[n] + 1).q
                        ELSE NullQ

\* C3: once validation has passed, parse() returns a Pattern: no error and no
\* exception comes out of the consumption of the body.
C3_NoErrorAfterValidation ==
    (pc = "returned" /\ message = "") => result = "pattern"

\* C4: with well-formed delimiters, validation fails with "Invalid regular
\* expression flags" exactly when some character after the closing delimiter
\* is none of d, g, i, m, s, u, y, and every accepted letter is recorded.
C4_FlagCheck ==
    (pc # "parse" /\ WellDelimited(regex)) =>
        LET after == {k \in (ClosePos(regex) + 1)..(Len(regex) - 1) : TRUE}
        IN  /\ (message = MsgFlags) <=> (\E k \in after : CharAt(regex, k) \notin SevenFlags)
            /\ message # MsgFlags =>
                  \A k \in after : \E j \in 1..Len(flagSet) : flagSet[j] = CharAt(regex, k)

\* The distinct characters of s in order of first occurrence
RECURSIVE FirstOccurrences(_)
FirstOccurrences(s) ==
    IF s = <<>> THEN <<>>
    ELSE LET init == SubSeq(s, 1, Len(s) - 1)
             last == s[Len(s)]
         IN  IF \E k \in 1..Len(init) : init[k] = last
             THEN FirstOccurrences(init)
             ELSE Append(FirstOccurrences(init), last)

\* C5: a returned Pattern has exactly one Flag per distinct flag letter after
\* the closing delimiter, in order of first occurrence, each the semantic name
\* of its letter.
C5_Flags ==
    result = "pattern" =>
        LET letters == FirstOccurrences(Slice(regex, ClosePos(regex) + 1))
        IN  ast.flags = [k \in 1..Len(letters) |-> FlagName(letters[k])]

C5_Witness ==
    /\ result = "pattern"
    /\ Len(ast.flags) >= 2
    /\ ast.flags[1] # ast.flags[2]

\* The literal has no "/" at offset 0, or no further "/" after it
BadDelimiters(s) == CharAt(s, 0) # "/" \/ \A k \in 1..(Len(s) - 1) : CharAt(s, k) # "/"

NothingBuilt == ast.body = <<>> /\ ast.flags = <<>> /\ nodes = <<>>

\* C6 as stated: every literal given to parse() that does not start with "/"
\* at offset 0, or has no further "/", yields the error "Invalid regular
\* expression"; on any validation failure nothing is built.
C6_AsStated ==
    /\ (pc # "parse" /\ BadDelimiters(raw)) =>
          result = "error" /\ message = MsgInvalid
    /\ result = "error" => NothingBuilt

\* C6 amended: the literal is judged after the constructor has trimmed it.
\* Every literal that, once trimmed, does not start with "/" or has no further
\* "/" yields the error "Invalid regular expression" (so this check comes
\* before the flag check and the oracle); on any validation failure nothing
\* is built and the body is never consumed.
C6_Delimiters ==
    /\ (pc # "parse" /\ BadDelimiters(regex)) =>
          result = "error" /\ message = MsgInvalid
    /\ result = "error" => NothingBuilt /\ dispatched = {} /\ index = 0

C6_Witness ==
    /\ result = "error"
    /\ message = MsgInvalid
    /\ CharAt(regex, 0) # "/"
    /\ \E k \in 1..(Len(regex) - 1) :
          CharAt(regex, k) = "/" /\ k < Len(regex) - 1 /\ ~FlagTest(CharAt(regex, k + 1))

\* A capturing "(" opens at position p: a "(" not followed by "?:" or "?<"
CapturingOpenAt(s, p) ==
    /\ CharAt(s, p) = "("
    /\ ~(CharAt(s, p + 1) = "?" /\ CharAt(s, p + 2) \in {":", "<"})

\* C7: in a returned Pattern the number of a capturing group is 1 plus the
\* number of capturing "(" that open earlier in the body; non-capturing and
\* named groups get no number.
C7_CaptureNumbers ==
    result = "pattern" =>
        \A k \in 1..Len(nodes) :
            /\ nodes[k].kind = "capturing" =>
                  nodes[k].name =
                     NumToStr(1 + Cardinality({p \in 1..(opened[k].pos - 1) :
                                                  CapturingOpenAt(regex, p)}))
            /\ nodes[k].kind = "nonCapturing" => nodes[k].name = <<>>

\* C8: while the body of a group is consumed the group is the current parent,
\* so a node recognized there is a child of that group and not of the root;
\* after the group the parent is the former one and the group is prev.
C8_GroupIsParent ==
    /\ pc \in {"switch", "while"} =>
          parent = IF stack = <<>> THEN Root ELSE stack[Len(stack)]
    /\ \A k \in 1..Len(nodes) :
          opened[k].encl # Root =>
             /\ \E j \in 1..Len(nodes[opened[k].encl].children) :
                   nodes[opened[k].encl].children[j] = k
             /\ \A j \in 1..Len(ast.body) : ast.body[j] # k

\* C9: the character right after a consumed quantifier is dispatched on: a "("
\* there opens a group, and when the closing "/" is there the consumption of
\* the body ends without any flag character being dispatched on.
C9_NoSkip ==
    result = "pattern" =>
        /\ \A k \in 1..Len(qLog) :
              (qLog[k].q # NullQ /\ CharAt(regex, qLog[k].end) = "(") =>
                  \E g \in 1..Len(opened) : opened[g].pos = qLog[k].end
        /\ \A p \in dispatched : p <= ClosePos(regex)

\* A measure of the work left: the distance of the cursor to the end of the
\* literal, then the calls to return from, then the position in the loop
PcRank ==
    CASE pc = "parse" -> 6 [] pc = "onRegex" -> 5 [] pc = "switch" -> 4 [] pc = "while" -> 3
      [] pc = "groupReturn" -> 2 [] pc = "onFlags" -> 1 [] pc = "returned" -> 0

Rank == 3 * (Len(regex) - index) + 2 * Len(stack) + PcRank

\* Some action's guard holds: the cases of the switch cover every character,
\* and a consume(")") that returns has its onGroup call to return to
StepToTake ==
    \/ pc \in {"parse", "onRegex", "switch", "while", "onFlags"}
    \/ pc = "groupReturn" /\ stack # <<>>

\* C10: parse() terminates on every input: the cursor never decreases, every
\* arrival at the switch of a consume loop comes with the cursor at least 1
\* further, no advance leaves the cursor beyond the last character, and every
\* step of parse() lowers a measure that is never negative, with a step to
\* take until parse() has returned.
C10_Terminates ==
    /\ [](index = 0 \/ index <= Len(regex) - 1)
    /\ [](Rank >= 0)
    /\ [](pc # "returned" => StepToTake)
    /\ [][index' >= index]_vars
    /\ [][pc' = "switch" => index' >= index + 1]_vars
    /\ [][Rank' < Rank]_vars

C10_Witness ==
    /\ result = "pattern"
    /\ index = Len(regex) - 1
    /\ \E k \in 1..Len(qLog) : qLog[k].end >= qLog[k].at + 3
    /\ \E k \in 1..Len(nodes) : nodes[k].kind = "namedCapturing"

====
